---- MODULE Spec2Model ----
(***************************************************************************)
(* mumo-ingest: an append-only binary log (data file + fixed-width index   *)
(* file) served over HTTP, with Link-header pagination.                    *)
(*                                                                         *)
(* The two files are modelled as sequences: `data` of bytes, `indices` of  *)
(* 8-byte words (one u64 each, three per index entry).  A write_all that   *)
(* fails part-way leaves a prefix of what it was writing; the index file   *)
(* is torn at word boundaries only.                                        *)
(***************************************************************************)
EXTENDS Integers, Sequences, FiniteSets, TLC

(***************************************************************************)
(* Bounds of the model.                                                    *)
(***************************************************************************)
NumReq == 2        \* request handlers that may run concurrently
MaxLen == 1        \* longest payload, in bytes
MaxWrites == 3     \* calls of State::write in one behaviour
MaxFaults == 1     \* I/O errors, crashes or power losses in one behaviour
MaxSeq == 10       \* largest (current, bound) given to the pagination builder
MaxChunks == 2     \* chunks of one request body
MaxHi == 1         \* largest multiple of 2^61 in a requested index

Bytes == {1, 2}
Req == 1..NumReq

(***************************************************************************)
(* Program constants.                                                      *)
(***************************************************************************)
LENGTH == 24       \* Index::LENGTH, bytes of one index entry
MAX_SIZE == 262144000  \* main.rs MAX_SIZE, the cap on a request body
WordSize == 8      \* bytes of one u64 field of Index

RECURSIVE SeqsUpTo(_)
SeqsUpTo(n) ==
    IF n = 0 THEN {<<>>}
    ELSE LET S == SeqsUpTo(n - 1)
         IN  S \cup {Append(s, b) : s \in {x \in S : Len(x) = n - 1}, b \in Bytes}

Payloads == SeqsUpTo(MaxLen)

VARIABLES
    data,         \* the data file, as the operating system shows it
    indices,      \* the index file, as the operating system shows it (words)
    dataDisk,     \* bytes of `data` that have reached stable storage
    indicesDisk,  \* words of `indices` that have reached stable storage
    offset,       \* State.offset
    index,        \* State.index
    lock,         \* holder of the Mutex<State>, 0 when free
    pc,           \* position of each request handler
    bin,          \* write_msg: the extracted payload
    cur,          \* State::write: the Index built for this append
    arg,          \* read_msg: the requested index and the request URI
    got,          \* read_msg: what State::read returned
    resp,         \* the response a handler has built and not yet returned
    log,          \* history: the appends answered with success, in order
    at,           \* history: where each handler's payload landed in `data`
    nwrites,      \* history: calls of State::write so far
    faults,       \* history: fault events so far
    rebootLen,    \* history: appends answered before the latest orderly restart
    faultLen,     \* history: appends answered before the latest fault
    early,        \* the response a handler has built without holding the lock
    hi,           \* read_msg: the multiple of 2^61 in the requested index
    poisoned,     \* the Mutex<State> is poisoned
    checks,       \* the build panics on arithmetic overflow (overflow-checks)
    walk,         \* a consumer following the links of the responses it gets
    lcur, lbound, luri, lhdr  \* the pagination builder applied on its own

vars == <<data, indices, dataDisk, indicesDisk, offset, index, lock, pc, bin,
          cur, arg, got, resp, log, at, nwrites, faults, rebootLen, faultLen,
          early, hi, poisoned, checks, walk, lcur, lbound, luri, lhdr>>

storeVars == <<data, indices, dataDisk, indicesDisk, offset, index, lock, pc,
               bin, cur, arg, got, resp, log, at, nwrites, faults,
               rebootLen, faultLen, early, hi, poisoned, checks, walk>>

linkVars == <<lcur, lbound, luri, lhdr>>

\* what a handler keeps outside the lock, and the state of the lock
httpVars == <<early, hi, poisoned>>

\* what no request handler touches
sideVars == <<linkVars, checks, walk>>

(***************************************************************************)
(* files.rs: Index and its 24-byte encoding.                               *)
(***************************************************************************)
Index(s, i, l) == [start |-> s, index |-> i, length |-> l]

NoIndex == Index(0, 0, 0)

\* transmute([start, index, length]): the three fields in declaration order
to_bytes(e) == <<e.start, e.index, e.length>>

\* transmute of 24 bytes to [start, index, length]
from_bytes(w) == Index(w[1], w[2], w[3])

\* length of the index file in bytes
IndicesBytes(f) == WordSize * Len(f)

\* read_exact_at(buf[24], pos) on the index file: <<>> on error, else <<words>>
ReadIndexAt(f, pos) ==
    IF pos + LENGTH <= IndicesBytes(f)
    THEN <<SubSeq(f, pos \div WordSize + 1, (pos + LENGTH) \div WordSize)>>
    ELSE <<>>

\* a positional read that returns the bytes there are
ReadDataAt_Short(f, pos, len) ==
    IF len = 0 THEN << <<>> >>
    ELSE IF pos < Len(f)
         THEN <<SubSeq(f, pos + 1, IF pos + len <= Len(f) THEN pos + len ELSE Len(f))>>
    ELSE <<>>

\* read_exact_at(buf[len], pos) on the data file: an empty buffer always succeeds
ReadDataAt(f, pos, len) ==
    IF len = 0 THEN << <<>> >>
    ELSE IF pos + len <= Len(f) THEN <<SubSeq(f, pos + 1, pos + len)>>
    ELSE <<>>

\* a recovery that decodes the first entry of the index file
get_last_index_First(f) ==
    IF IndicesBytes(f) < LENGTH THEN <<>>
    ELSE LET r == ReadIndexAt(f, 0)
         IN  IF r = <<>> THEN <<>> ELSE <<from_bytes(r[1])>>

\* State::get_last_index: seek(End(-24)) then read_exact of 24 bytes
get_last_index(f) ==
    IF IndicesBytes(f) < LENGTH THEN <<>>
    ELSE LET r == ReadIndexAt(f, IndicesBytes(f) - LENGTH)
         IN  IF r = <<>> THEN <<>> ELSE <<from_bytes(r[1])>>

\* a recovery that resumes at the last record's start, not at its end
new_StartOnly(f) ==
    LET last == get_last_index(f)
    IN  IF last # <<>>
        THEN <<last[1].index + 1, last[1].start>>
        ELSE <<0, 0>>

\* State::new: <<index, offset>> recovered from the index file
new(f) ==
    LET last == get_last_index(f)
    IN  IF last # <<>>
        THEN <<last[1].index + 1, last[1].start + last[1].length>>
        ELSE <<0, 0>>

\* State::last
last(idx) == idx

\* State::read from the index entry at byte pos on: <<>> on error, else
\* <<[bytes, entry]>>
read_at(d, f, pos) ==
    LET w == ReadIndexAt(f, pos)
    IN  IF w = <<>> THEN <<>>
        ELSE LET e == from_bytes(w[1])
                 b == ReadDataAt(d, e.start, e.length)
             IN  IF b = <<>> THEN <<>>
                 ELSE <<[bytes |-> b[1], entry |-> e]>>

\* State::read(idx), for an idx whose idx * Index::LENGTH fits a u64
read(d, f, idx) == read_at(d, f, idx * LENGTH)

(***************************************************************************)
(* links.rs: the pagination builder.                                       *)
(***************************************************************************)
Kinds == <<"next", "prev", "last", "first">>

\* a next relation offered up to and including the bound
apply_NextAtBound(kind, idx, max) ==
    CASE kind = "prev" -> IF idx = 0 THEN <<>> ELSE <<idx - 1>>
      [] kind = "next" -> IF idx + 1 <= max THEN <<idx + 1>> ELSE <<>>
      [] kind = "last" -> <<max>>
      [] kind = "first" -> <<0>>

\* Kind::apply: <<>> for None, <<target>> for Some(target)
apply(kind, idx, max) ==
    CASE kind = "prev" -> IF idx = 0 THEN <<>> ELSE <<idx - 1>>
      [] kind = "next" -> IF idx + 1 < max THEN <<idx + 1>> ELSE <<>>
      [] kind = "last" -> <<max>>
      [] kind = "first" -> <<0>>

\* a request URI: whether it has a path and query, and its query parameters
Uri(pq, key, i) == [pq |-> pq, key |-> key, index |-> i]

\* a link that keeps the "index" parameter of the request
link_to_SameIndex(uri, idx) == <<uri>>

\* link_to: the request URI with its "index" parameter overwritten
link_to(uri, idx) == <<[uri EXCEPT !.index = idx]>>

\* Link::header: <<>> for None, else <<segments>>, a segment per relation
header(current, bound, uri) ==
    IF ~uri.pq THEN <<>>
    ELSE LET seg(k) ==
                 LET t == apply(Kinds[k], current, bound)
                 IN  IF t = <<>> THEN <<>>
                     ELSE LET u == link_to(uri, t[1])
                          IN  IF u = <<>> THEN <<>>
                              ELSE <<[uri |-> u[1], rel |-> Kinds[k]]>>
             out == seg(1) \o seg(2) \o seg(3) \o seg(4)
         IN  IF out = <<>> THEN <<>> ELSE <<out>>

(***************************************************************************)
(* main.rs: the responses.                                                 *)
(***************************************************************************)
\* every branch answering 200
Response_Ok(code, body, hdr, size, idx) ==
    [code |-> "ok", body |-> body, hdr |-> hdr, size |-> size, index |-> idx]

Response(code, body, hdr, size, idx) ==
    [code |-> code, body |-> body, hdr |-> hdr, size |-> size, index |-> idx]

NoResponse == Response("none", <<>>, <<>>, 0, 0)

NoArg == [idx |-> 0, uri |-> Uri(TRUE, FALSE, 0)]

NoGot == [bytes |-> <<>>, entry |-> NoIndex]

\* a lock that excludes nobody
LockFree_Always == TRUE

\* a lock that is handed out although it is poisoned
LockFree_IgnorePoison == lock = 0

\* data.lock() succeeds: nobody holds the mutex and it is not poisoned
LockFree == lock = 0 /\ ~poisoned

StoreInit ==
    /\ data = <<>> /\ indices = <<>>
    /\ dataDisk = 0 /\ indicesDisk = 0
    /\ offset = new(<<>>)[2] /\ index = new(<<>>)[1]
    /\ lock = 0
    /\ pc = [t \in Req |-> "idle"]
    /\ bin = [t \in Req |-> <<>>]
    /\ cur = [t \in Req |-> NoIndex]
    /\ arg = [t \in Req |-> NoArg]
    /\ got = [t \in Req |-> NoGot]
    /\ resp = NoResponse
    /\ log = <<>>
    /\ at = [t \in Req |-> 0]
    /\ nwrites = 0 /\ faults = 0 /\ rebootLen = 0 /\ faultLen = 0
    /\ early = [t \in Req |-> NoResponse]
    /\ hi = [t \in Req |-> 0]
    /\ poisoned = FALSE

\* a consumer that is not walking
NoWalk == [st |-> "off", dir |-> "next", pos |-> 0, seen |-> <<>>]

Init ==
    /\ StoreInit
    /\ checks = FALSE /\ walk = NoWalk
    /\ lcur = 0 /\ lbound = 0 /\ luri = Uri(TRUE, FALSE, 0) /\ lhdr = <<>>

(***************************************************************************)
(* files.rs State::write, called by main.rs write_msg with flush = true.   *)
(***************************************************************************)
\* an Index built after the state was advanced
BuildIndex_AfterAdvance(off, idx, p) == Index(off + Len(p), idx, Len(p))

\* the Index of the record being appended
BuildIndex(off, idx, p) == Index(off, idx, Len(p))

\* a Written that reports the advanced sequence
Written_Advanced(p, idx) == [size |-> Len(p), index |-> idx]

\* Written { size: data.len(), index: self.index - 1 }
Written(p, idx) == [size |-> Len(p), index |-> idx - 1]

\* File::flush on a std::fs::File does nothing: no byte is forced to stable
\* storage, so the durable length after the call is what it was before
flush(cached, durable) == durable

\* write_msg takes the lock; State::write builds the Index, advances the
\* state and seeks both files to their end
WBegin(t, p) ==
    /\ pc[t] = "idle" /\ LockFree /\ nwrites < MaxWrites
    /\ lock' = t
    /\ bin' = [bin EXCEPT ![t] = p]
    /\ cur' = [cur EXCEPT ![t] = BuildIndex(offset, index, p)]
    /\ offset' = offset + Len(p)
    /\ index' = index + 1
    /\ nwrites' = nwrites + 1
    /\ pc' = [pc EXCEPT ![t] = "w_data"]
    /\ UNCHANGED <<data, indices, dataDisk, indicesDisk, arg, got, resp, log,
                   at, faults, rebootLen, faultLen>>
    /\ UNCHANGED httpVars
    /\ UNCHANGED sideVars

\* self.data.write_all(data): the file is opened in append mode
WData(t) ==
    /\ pc[t] = "w_data"
    /\ data' = data \o bin[t]
    /\ at' = [at EXCEPT ![t] = Len(data)]
    /\ pc' = [pc EXCEPT ![t] = "w_index"]
    /\ UNCHANGED <<indices, dataDisk, indicesDisk, offset, index, lock, bin,
                   cur, arg, got, resp, log, nwrites, faults, rebootLen,
                   faultLen>>
    /\ UNCHANGED httpVars
    /\ UNCHANGED sideVars

\* self.indices.write_all(&index.to_bytes())
WIndex(t) ==
    /\ pc[t] = "w_index"
    /\ indices' = indices \o to_bytes(cur[t])
    /\ pc' = [pc EXCEPT ![t] = "w_flush"]
    /\ UNCHANGED <<data, dataDisk, indicesDisk, offset, index, lock, bin, cur,
                   arg, got, resp, log, at, nwrites, faults, rebootLen,
                   faultLen>>
    /\ UNCHANGED httpVars
    /\ UNCHANGED sideVars

\* self.flush(), Ok(Written), and write_msg's 200 response, built while the
\* MutexGuard is alive
WReturn(t) ==
    /\ pc[t] = "w_flush"
    /\ indicesDisk' = flush(Len(indices), indicesDisk)
    /\ dataDisk' = flush(Len(data), dataDisk)
    /\ LET w == Written(bin[t], index)
       IN  /\ resp' = Response("ok", <<>>, <<>>, w.size, w.index)
           /\ log' = Append(log, [payload |-> bin[t], entry |-> cur[t],
                                  at |-> at[t], size |-> w.size,
                                  sequence |-> w.index])
    /\ pc' = [pc EXCEPT ![t] = "done"]
    /\ UNCHANGED <<data, indices, offset, index, lock, bin, cur, arg, got, at,
                   nwrites, faults, rebootLen, faultLen>>
    /\ UNCHANGED httpVars
    /\ UNCHANGED sideVars

(***************************************************************************)
(* main.rs read_msg.                                                       *)
(***************************************************************************)
ReadIdx == 0..(MaxWrites + 1)

\* read_msg takes the lock and calls st.read(info.index); an Err is answered
\* with 404
RRead(t, i, key) ==
    /\ pc[t] = "idle" /\ LockFree
    /\ lock' = t
    /\ LET r == read(data, indices, i)
       IN  IF r = <<>>
           THEN /\ resp' = Response("notfound", <<>>, <<>>, 0, 0)
                /\ pc' = [pc EXCEPT ![t] = "done"]
                /\ UNCHANGED <<arg, got>>
           ELSE /\ pc' = [pc EXCEPT ![t] = "r_link"]
                /\ arg' = [arg EXCEPT ![t] = [idx |-> i, uri |-> Uri(TRUE, key, i)]]
                /\ got' = [got EXCEPT ![t] = r[1]]
                /\ UNCHANGED resp
    /\ UNCHANGED <<data, indices, dataDisk, indicesDisk, offset, index, bin,
                   cur, log, at, nwrites, faults, rebootLen, faultLen>>
    /\ UNCHANGED httpVars
    /\ UNCHANGED sideVars

\* Link::new(idx.index, st.last()).header(&uri) and the 200 response
RRespond(t) ==
    /\ pc[t] = "r_link"
    /\ resp' = Response("ok", got[t].bytes,
                        header(got[t].entry.index, last(index), arg[t].uri),
                        0, got[t].entry.index)
    /\ pc' = [pc EXCEPT ![t] = "done"]
    /\ UNCHANGED <<data, indices, dataDisk, indicesDisk, offset, index, lock,
                   bin, cur, arg, got, log, at, nwrites, faults, rebootLen,
                   faultLen>>
    /\ UNCHANGED httpVars
    /\ UNCHANGED sideVars

\* the handler returns its response: the MutexGuard is dropped, the locals
\* are gone
Done(t) ==
    /\ pc[t] = "done"
    /\ lock' = 0
    /\ pc' = [pc EXCEPT ![t] = "idle"]
    /\ bin' = [bin EXCEPT ![t] = <<>>]
    /\ cur' = [cur EXCEPT ![t] = NoIndex]
    /\ arg' = [arg EXCEPT ![t] = NoArg]
    /\ got' = [got EXCEPT ![t] = NoGot]
    /\ at' = [at EXCEPT ![t] = 0]
    /\ hi' = [hi EXCEPT ![t] = 0]
    /\ resp' = NoResponse
    /\ UNCHANGED <<data, indices, dataDisk, indicesDisk, offset, index, log,
                   nwrites, faults, rebootLen, faultLen>>
    /\ UNCHANGED <<early, poisoned>>
    /\ UNCHANGED sideVars

(***************************************************************************)
(* main.rs main: the process starts again on the same two files.           *)
(***************************************************************************)
Reopen(f) ==
    /\ index' = new(f)[1]
    /\ offset' = new(f)[2]
    /\ lock' = 0
    /\ pc' = [t \in Req |-> "idle"]
    /\ bin' = [t \in Req |-> <<>>]
    /\ cur' = [t \in Req |-> NoIndex]
    /\ arg' = [t \in Req |-> NoArg]
    /\ got' = [t \in Req |-> NoGot]
    /\ at' = [t \in Req |-> 0]
    /\ resp' = NoResponse
    /\ early' = [t \in Req |-> NoResponse]
    /\ hi' = [t \in Req |-> 0]
    /\ poisoned' = FALSE

Idle == \A t \in Req : pc[t] = "idle"

\* the process is stopped between requests and started again
Restart ==
    /\ Idle
    /\ Reopen(indices)
    /\ rebootLen' = Len(log)
    /\ UNCHANGED <<data, indices, dataDisk, indicesDisk, log, nwrites, faults,
                   faultLen>>
    /\ UNCHANGED sideVars

Next ==
    \/ \E t \in Req, p \in Payloads : WBegin(t, p)
    \/ \E t \in Req : WData(t)
    \/ \E t \in Req : WIndex(t)
    \/ \E t \in Req : WReturn(t)
    \/ \E t \in Req, i \in ReadIdx, key \in BOOLEAN : RRead(t, i, key)
    \/ \E t \in Req : RRespond(t)
    \/ \E t \in Req : Done(t)
    \/ Restart

Spec == Init /\ [][Next]_vars

(***************************************************************************)
(* I/O errors inside State::write: write_all returns Err after writing a   *)
(* proper prefix of its buffer; `?` returns it and write_msg answers 404.  *)
(***************************************************************************)
WDataErr(t, k) ==
    /\ pc[t] = "w_data" /\ faults < MaxFaults
    /\ k < Len(bin[t])
    /\ data' = data \o SubSeq(bin[t], 1, k)
    /\ resp' = Response("notfound", <<>>, <<>>, 0, 0)
    /\ pc' = [pc EXCEPT ![t] = "done"]
    /\ faults' = faults + 1
    /\ faultLen' = Len(log)
    /\ UNCHANGED <<indices, dataDisk, indicesDisk, offset, index, lock, bin,
                   cur, arg, got, log, at, nwrites, rebootLen>>
    /\ UNCHANGED httpVars
    /\ UNCHANGED sideVars

WIndexErr(t, k) ==
    /\ pc[t] = "w_index" /\ faults < MaxFaults
    /\ k < Len(to_bytes(cur[t]))
    /\ indices' = indices \o SubSeq(to_bytes(cur[t]), 1, k)
    /\ resp' = Response("notfound", <<>>, <<>>, 0, 0)
    /\ pc' = [pc EXCEPT ![t] = "done"]
    /\ faults' = faults + 1
    /\ faultLen' = Len(log)
    /\ UNCHANGED <<data, dataDisk, indicesDisk, offset, index, lock, bin, cur,
                   arg, got, log, at, nwrites, rebootLen>>
    /\ UNCHANGED httpVars
    /\ UNCHANGED sideVars

NextFail ==
    \/ Next
    \/ \E t \in Req, k \in 0..MaxLen : WDataErr(t, k)
    \/ \E t \in Req, k \in 0..2 : WIndexErr(t, k)

SpecFail == Init /\ [][NextFail]_vars

\* appends and their I/O errors only
NextTorn ==
    \/ \E t \in Req, p \in Payloads : WBegin(t, p)
    \/ \E t \in Req : WData(t)
    \/ \E t \in Req : WIndex(t)
    \/ \E t \in Req : WReturn(t)
    \/ \E t \in Req : Done(t)
    \/ \E t \in Req, k \in 0..MaxLen : WDataErr(t, k)
    \/ \E t \in Req, k \in 0..2 : WIndexErr(t, k)

SpecTorn == Init /\ [][NextTorn]_vars

(***************************************************************************)
(* The process is killed after State::write's payload write has completed  *)
(* and before its index write, and is started again.                       *)
(***************************************************************************)
CrashBeforeIndex ==
    /\ \E t \in Req : pc[t] = "w_index"
    /\ faults < MaxFaults
    /\ Reopen(indices)
    /\ faults' = faults + 1
    /\ faultLen' = Len(log)
    /\ UNCHANGED <<data, indices, dataDisk, indicesDisk, log, nwrites,
                   rebootLen>>
    /\ UNCHANGED sideVars

NextCrash ==
    \/ Next
    \/ CrashBeforeIndex

SpecCrash == Init /\ [][NextCrash]_vars

(***************************************************************************)
(* Stable storage.  The operating system writes cached file contents back  *)
(* when it chooses (here: all that is cached of a file at once); a power   *)
(* loss leaves of each file what had been written back, and the process is *)
(* started again.                                                          *)
(***************************************************************************)
WriteBack(d, i) ==
    /\ d >= dataDisk /\ i >= indicesDisk
    /\ <<d, i>> # <<dataDisk, indicesDisk>>
    /\ dataDisk' = d /\ indicesDisk' = i
    /\ UNCHANGED <<data, indices, offset, index, lock, pc, bin, cur, arg, got,
                   resp, log, at, nwrites, faults, rebootLen, faultLen>>
    /\ UNCHANGED httpVars
    /\ UNCHANGED sideVars

PowerLoss ==
    /\ faults < MaxFaults
    /\ data' = SubSeq(data, 1, dataDisk)
    /\ indices' = SubSeq(indices, 1, indicesDisk)
    /\ Reopen(SubSeq(indices, 1, indicesDisk))
    /\ faults' = faults + 1
    /\ faultLen' = Len(log)
    /\ UNCHANGED <<dataDisk, indicesDisk, log, nwrites, rebootLen>>
    /\ UNCHANGED sideVars

NextPower ==
    \/ Next
    \/ \E d \in {dataDisk, Len(data)}, i \in {indicesDisk, Len(indices)} :
           WriteBack(d, i)
    \/ PowerLoss

SpecPower == Init /\ [][NextPower]_vars

(***************************************************************************)
(* The pagination builder on its own: Link::new(current, last).header(uri) *)
(* for every current and bound up to MaxSeq and every shape of request     *)
(* URI.  lhdr is <<>> until the header is built, then <<header>>.          *)
(***************************************************************************)
InitLink ==
    /\ StoreInit
    /\ checks = FALSE /\ walk = NoWalk
    /\ lcur \in 0..MaxSeq /\ lbound \in 0..MaxSeq
    /\ luri \in {Uri(pq, key, lcur) : pq \in BOOLEAN, key \in BOOLEAN}
    /\ lhdr = <<>>

LinkHeader ==
    /\ lhdr = <<>>
    /\ lhdr' = <<header(lcur, lbound, luri)>>
    /\ UNCHANGED <<lcur, lbound, luri>>
    /\ UNCHANGED storeVars

NextLink == LinkHeader

SpecLink == InitLink /\ [][NextLink]_vars

(***************************************************************************)
(* main.rs extract_payload, and write_msg's answer to its Err.  A request  *)
(* body is the sequence of the lengths of its chunks.  Bodies within the   *)
(* cap are the payloads of WBegin; the bodies here are those over the cap, *)
(* which cannot be held as a sequence of bytes.                            *)
(***************************************************************************)
ChunkLens == {1, MAX_SIZE}

Bodies == UNION {[1..n -> ChunkLens] : n \in 1..MaxChunks}

RECURSIVE Total(_)
Total(chunks) ==
    IF chunks = <<>> THEN 0 ELSE Head(chunks) + Total(Tail(chunks))

\* a cap applied to each chunk on its own
RECURSIVE extract_payload_PerChunk(_, _)
extract_payload_PerChunk(len, chunks) ==
    IF chunks = <<>> THEN <<len>>
    ELSE IF Head(chunks) > MAX_SIZE THEN <<>>
    ELSE extract_payload_PerChunk(len + Head(chunks), Tail(chunks))

\* extract_payload, from a body of len bytes on: <<>> for Err, else <<length
\* of the Bytes returned>>
RECURSIVE extract_payload(_, _)
extract_payload(len, chunks) ==
    IF chunks = <<>> THEN <<len>>
    ELSE IF len + Head(chunks) > MAX_SIZE THEN <<>>
    ELSE extract_payload(len + Head(chunks), Tail(chunks))

\* write_msg on a body longer than MAX_SIZE: the Err of extract_payload is
\* answered with 400 before data.lock() is reached; on Ok the handler would
\* go on to data.lock()
WTooLarge(t, chunks) ==
    /\ pc[t] = "idle" /\ Total(chunks) > MAX_SIZE
    /\ IF extract_payload(0, chunks) = <<>>
       THEN /\ early' = [early EXCEPT ![t] =
                            Response("badrequest", <<>>, <<>>, 0, 0)]
            /\ pc' = [pc EXCEPT ![t] = "early"]
       ELSE /\ pc' = [pc EXCEPT ![t] = "w_lock"]
            /\ UNCHANGED early
    /\ UNCHANGED <<data, indices, dataDisk, indicesDisk, offset, index, lock,
                   bin, cur, arg, got, resp, log, at, nwrites, faults,
                   rebootLen, faultLen>>
    /\ UNCHANGED <<hi, poisoned>>
    /\ UNCHANGED sideVars

\* a handler returns the response it built without the lock
Return(t) ==
    /\ pc[t] = "early"
    /\ pc' = [pc EXCEPT ![t] = "idle"]
    /\ early' = [early EXCEPT ![t] = NoResponse]
    /\ bin' = [bin EXCEPT ![t] = <<>>]
    /\ UNCHANGED <<data, indices, dataDisk, indicesDisk, offset, index, lock,
                   cur, arg, got, resp, log, at, nwrites, faults,
                   rebootLen, faultLen>>
    /\ UNCHANGED <<hi, poisoned>>
    /\ UNCHANGED sideVars

NextCap ==
    \/ \E t \in Req, p \in Payloads : WBegin(t, p)
    \/ \E t \in Req : WData(t)
    \/ \E t \in Req : WIndex(t)
    \/ \E t \in Req : WReturn(t)
    \/ \E t \in Req : Done(t)
    \/ \E t \in Req, chunks \in Bodies : WTooLarge(t, chunks)
    \/ \E t \in Req : Return(t)

SpecCap == Init /\ [][NextCap]_vars

(***************************************************************************)
(* A requested index beyond the store's own sequences.  Info.index is any  *)
(* u64; it is held here as the pair (h, i) that stands for h * 2^61 + i,   *)
(* with h < 8 and i small.  State::read multiplies it by Index::LENGTH in  *)
(* u64: 24 * 2^61 = 3 * 2^64, so of the product the part in units of 2^61  *)
(* is 24 * h, of which 24 * h mod 8 stays in the u64 and the rest is       *)
(* carried out of it, and the part below 2^61 is 24 * i.  Where the        *)
(* product does not fit, a build with overflow checks panics and a build   *)
(* without them goes on with the wrapped product.                          *)
(***************************************************************************)
HiUnits == 8       \* 2^64 / 2^61

\* idx * Index::LENGTH as u64: what stays in the u64 and what is carried out
mul_LENGTH(h, i) ==
    [hi |-> (h * LENGTH) % HiUnits, lo |-> i * LENGTH,
     carry |-> (h * LENGTH) \div HiUnits]

\* State::read(idx) in a build without overflow checks: read_exact_at at the
\* wrapped product, which is past the end of any file when at or above 2^61
read_wrapping(d, f, h, i) ==
    LET pos == mul_LENGTH(h, i)
    IN  IF pos.hi > 0 THEN <<>> ELSE read_at(d, f, pos.lo)

\* read_msg for an index at or above 2^61.  With overflow checks the
\* multiplication panics inside the handler: the MutexGuard is dropped while
\* unwinding, which poisons the mutex, and no response is built.
RReadWide(t, h, i, key) ==
    /\ pc[t] = "idle" /\ LockFree
    /\ IF checks /\ mul_LENGTH(h, i).carry > 0
       THEN /\ poisoned' = TRUE
            /\ UNCHANGED <<lock, pc, arg, got, resp, hi>>
       ELSE /\ lock' = t
            /\ hi' = [hi EXCEPT ![t] = h]
            /\ LET r == read_wrapping(data, indices, h, i)
               IN  IF r = <<>>
                   THEN /\ resp' = Response("notfound", <<>>, <<>>, 0, 0)
                        /\ pc' = [pc EXCEPT ![t] = "done"]
                        /\ UNCHANGED <<arg, got>>
                   ELSE /\ pc' = [pc EXCEPT ![t] = "r_link"]
                        /\ arg' = [arg EXCEPT ![t] =
                                      [idx |-> i, uri |-> Uri(TRUE, key, i)]]
                        /\ got' = [got EXCEPT ![t] = r[1]]
                        /\ UNCHANGED resp
            /\ UNCHANGED poisoned
    /\ UNCHANGED <<data, indices, dataDisk, indicesDisk, offset, index, bin,
                   cur, log, at, nwrites, faults, rebootLen, faultLen>>
    /\ UNCHANGED early
    /\ UNCHANGED sideVars

\* data.lock() returns Err: the mutex is free and poisoned
LockFails == lock = 0 /\ poisoned

\* read_msg when data.lock() is Err: 500 "lock failed"
RLockFail(t) ==
    /\ pc[t] = "idle" /\ LockFails
    /\ early' = [early EXCEPT ![t] = Response("error", <<>>, <<>>, 0, 0)]
    /\ pc' = [pc EXCEPT ![t] = "early"]
    /\ UNCHANGED <<data, indices, dataDisk, indicesDisk, offset, index, lock,
                   bin, cur, arg, got, resp, log, at, nwrites, faults,
                   rebootLen, faultLen>>
    /\ UNCHANGED <<hi, poisoned>>
    /\ UNCHANGED sideVars

\* write_msg, its body extracted, when data.lock() is Err: 500 "lock failed"
WLockFail(t, p) ==
    /\ pc[t] = "idle" /\ LockFails
    /\ bin' = [bin EXCEPT ![t] = p]
    /\ early' = [early EXCEPT ![t] = Response("error", <<>>, <<>>, 0, 0)]
    /\ pc' = [pc EXCEPT ![t] = "early"]
    /\ UNCHANGED <<data, indices, dataDisk, indicesDisk, offset, index, lock,
                   cur, arg, got, resp, log, at, nwrites, faults,
                   rebootLen, faultLen>>
    /\ UNCHANGED <<hi, poisoned>>
    /\ UNCHANGED sideVars

InitWide ==
    /\ StoreInit
    /\ checks \in BOOLEAN /\ walk = NoWalk
    /\ lcur = 0 /\ lbound = 0 /\ luri = Uri(TRUE, FALSE, 0) /\ lhdr = <<>>

NextWide ==
    \/ \E t \in Req, p \in Payloads : WBegin(t, p)
    \/ \E t \in Req : WData(t)
    \/ \E t \in Req : WIndex(t)
    \/ \E t \in Req : WReturn(t)
    \/ \E t \in Req, i \in ReadIdx, key \in BOOLEAN : RRead(t, i, key)
    \/ \E t \in Req : RRespond(t)
    \/ \E t \in Req : Done(t)
    \/ \E t \in Req, h \in 1..MaxHi, i \in ReadIdx, key \in BOOLEAN :
           RReadWide(t, h, i, key)
    \/ \E t \in Req : RLockFail(t)
    \/ \E t \in Req, p \in Payloads : WLockFail(t, p)
    \/ \E t \in Req : Return(t)

SpecWide == InitWide /\ [][NextWide]_vars

(***************************************************************************)
(* All the answers of read_msg and write_msg side by side: appends with    *)
(* and without I/O errors, reads of indices of any size, bodies over the   *)
(* cap, and requests that find the mutex poisoned.                         *)
(***************************************************************************)
HttpPayloads == {p \in Payloads : \A k \in DOMAIN p : p[k] = 1}

HttpBodies == {b \in Bodies : Len(b) = 2 /\ Total(b) > MAX_SIZE}

\* the first record, and a sequence no append is ever assigned
HttpReadIdx == {0, MaxWrites + 1}

InitHttp ==
    /\ StoreInit
    /\ checks = TRUE /\ walk = NoWalk
    /\ lcur = 0 /\ lbound = 0 /\ luri = Uri(TRUE, FALSE, 0) /\ lhdr = <<>>

NextHttp ==
    \/ \E t \in Req, p \in HttpPayloads : WBegin(t, p)
    \/ \E t \in Req : WData(t)
    \/ \E t \in Req : WIndex(t)
    \/ \E t \in Req : WReturn(t)
    \/ \E t \in Req, k \in 0..MaxLen : WDataErr(t, k)
    \/ \E t \in Req, k \in 0..2 : WIndexErr(t, k)
    \/ \E t \in Req, i \in HttpReadIdx : RRead(t, i, FALSE)
    \/ \E t \in Req : RRespond(t)
    \/ \E t \in Req : Done(t)
    \/ \E t \in Req, h \in 1..MaxHi : RReadWide(t, h, 0, FALSE)
    \/ \E t \in Req : RLockFail(t)
    \/ \E t \in Req, p \in {<<>>} : WLockFail(t, p)
    \/ \E t \in Req, chunks \in HttpBodies : WTooLarge(t, chunks)
    \/ \E t \in Req : Return(t)

SpecHttp == InitHttp /\ [][NextHttp]_vars

\* the targets of the relations named rel in a header value (<<>>: no header)
Targets(h, rel) ==
    IF h = <<>> THEN {}
    ELSE {h[1][k].uri.index : k \in {j \in DOMAIN h[1] : h[1][j].rel = rel}}

(***************************************************************************)
(* A consumer walking the log by the Link headers of read_msg's responses: *)
(* it asks for a first sequence, and then for the target of the next (or   *)
(* prev) relation of each response, until a response has no such relation  *)
(* or is not a 200.  No append runs while it walks.                        *)
(***************************************************************************)
Dirs == {"next", "prev"}

\* the consumer sets out: forward from the target of the first relation,
\* backward from the last record
WalkStart(dir) ==
    /\ walk.st = "off" /\ Idle /\ last(index) >= 1
    /\ walk' = [st |-> "go", dir |-> dir,
                pos |-> IF dir = "next" THEN 0 ELSE last(index) - 1,
                seen |-> <<>>]
    /\ UNCHANGED <<data, indices, dataDisk, indicesDisk, offset, index, lock,
                   pc, bin, cur, arg, got, resp, log, at, nwrites, faults,
                   rebootLen, faultLen>>
    /\ UNCHANGED <<httpVars, linkVars, checks>>

\* one GET of the walk, served by read_msg from lock to response, and the
\* consumer's choice of where to go from its Link header
WalkStep ==
    /\ walk.st = "go" /\ LockFree /\ Len(walk.seen) <= MaxWrites
    /\ LET r == read(data, indices, walk.pos)
       IN  IF r = <<>>
           THEN walk' = [walk EXCEPT !.st = "failed"]
           ELSE LET h == header(r[1].entry.index, last(index),
                                Uri(TRUE, FALSE, walk.pos))
                    to == Targets(h, walk.dir)
                IN  walk' = [walk EXCEPT
                                !.seen = Append(@, r[1].entry.index),
                                !.st = IF to = {} THEN "end" ELSE "go",
                                !.pos = IF to = {} THEN @
                                        ELSE CHOOSE x \in to : TRUE]
    /\ UNCHANGED <<data, indices, dataDisk, indicesDisk, offset, index, lock,
                   pc, bin, cur, arg, got, resp, log, at, nwrites, faults,
                   rebootLen, faultLen>>
    /\ UNCHANGED <<httpVars, linkVars, checks>>

NextWalk ==
    \/ \E t \in Req, p \in Payloads : walk.st = "off" /\ WBegin(t, p)
    \/ \E t \in Req : WData(t)
    \/ \E t \in Req : WIndex(t)
    \/ \E t \in Req : WReturn(t)
    \/ \E t \in Req : Done(t)
    \/ \E dir \in Dirs : WalkStart(dir)
    \/ WalkStep

SpecWalk == Init /\ [][NextWalk]_vars

(***************************************************************************)
(* State::read on the store as it stands.                                  *)
(***************************************************************************)
ReadNow(i) == read(data, indices, i)

\* C1: after N successful appends to an initially empty store, with restarts
\* interposed between appends, read(i) succeeds for every i < N and returns
\* the bytes passed to the i-th append and an index entry of sequence i.
C1_ReadBack ==
    \A k \in 1..Len(log) :
        /\ ReadNow(k - 1) # <<>>
        /\ ReadNow(k - 1)[1].bytes = log[k].payload
        /\ ReadNow(k - 1)[1].entry.index = k - 1

\* three appends of different payloads, the last two after a restart
C1_Witness ==
    /\ Len(log) = 3 /\ rebootLen = 1
    /\ log[1].payload # log[2].payload
    /\ log[2].payload # <<>> /\ log[3].payload # <<>>
    /\ ReadNow(2) # <<>>

\* C2: in every reachable state of the store, read(s) fails for every
\* s >= last_sequence().
C2_NoReadPastLast ==
    Idle => \A s \in ReadIdx : s >= last(index) => ReadNow(s) = <<>>

\* total length of the payloads of the first n answered appends
RECURSIVE SumLen(_)
SumLen(n) == IF n = 0 THEN 0 ELSE SumLen(n - 1) + Len(log[n].payload)

\* the recovered state shows no trace of the payload whose index entry was
\* never written
C3_NoTrace ==
    (faults >= 1 /\ Idle) =>
        /\ last(index) = Len(log)
        /\ offset = SumLen(Len(log))
        /\ ReadNow(Len(log)) = <<>>

\* every record appended after the restart reads back as the bytes passed
C3_LaterAppendsIntact ==
    \A k \in 1..Len(log) :
        (faults >= 1 /\ k > faultLen) =>
            /\ ReadNow(log[k].sequence) # <<>>
            /\ ReadNow(log[k].sequence)[1].bytes = log[k].payload

\* C3: if the process terminates after an append's payload write and before
\* its index write, the recovered state shows no trace of that payload and
\* the orphaned bytes do not corrupt subsequent appends.
C3_OrphanHarmless == C3_NoTrace /\ C3_LaterAppendsIntact

\* C4: after N successful appends to an initially empty store (restarts may be
\* interposed) last_sequence() is N, and the k-th append returned
\* Written{size = length of its payload, sequence = k-1}, the value
\* last_sequence() had when the append began.
C4_Sequences ==
    /\ Idle => last(index) = Len(log)
    /\ \A k \in 1..Len(log) :
           /\ log[k].size = Len(log[k].payload)
           /\ log[k].sequence = k - 1
           /\ log[k].sequence = log[k].entry.index

\* three appends answered, the last two after a restart, the last response
\* being Written{size: 1, index: 2}
C4_Witness ==
    /\ Len(log) = 3 /\ last(index) = 3 /\ rebootLen = 1
    /\ resp = Response("ok", <<>>, <<>>, 1, 2)

\* the index entry stored for record i (0-based), read from the index file
EntryAt(i) == from_bytes(ReadIndexAt(indices, i * LENGTH)[1])

\* C5: the index entry of record i starts at the sum of the lengths of the
\* records before it, which is where its payload was written, so the byte
\* ranges of consecutive records are contiguous.
C5_Contiguous ==
    \A k \in 1..Len(log) :
        /\ ReadIndexAt(indices, (k - 1) * LENGTH) # <<>>
        /\ EntryAt(k - 1).start = SumLen(k - 1)
        /\ EntryAt(k - 1).length = Len(log[k].payload)
        /\ EntryAt(k - 1).start = log[k].at
        /\ k < Len(log) =>
               EntryAt(k).start = EntryAt(k - 1).start + EntryAt(k - 1).length

\* an empty record between two non-empty ones
C5_Witness ==
    /\ Len(log) = 3
    /\ Len(log[1].payload) = 1 /\ Len(log[2].payload) = 0
    /\ Len(log[3].payload) = 1
    /\ EntryAt(2).start = 1 /\ log[3].at = 1

\* C6: in every reachable state the entry stored at byte offset i*24 of the
\* index file has sequence i, so every successful read(i) returns an entry of
\* sequence i.
C6_Dense ==
    \A i \in ReadIdx :
        /\ ReadIndexAt(indices, i * LENGTH) # <<>> => EntryAt(i).index = i
        /\ ReadNow(i) # <<>> => ReadNow(i)[1].entry.index = i

\* C7: once write_msg has answered an append with {size, index}, a crash at
\* any later point followed by a restart still reads that sequence back as
\* the bytes written.
C7_Durable ==
    \A k \in 1..Len(log) :
        /\ ReadNow(log[k].sequence) # <<>>
        /\ ReadNow(log[k].sequence)[1].bytes = log[k].payload

\* C8: the Link header of a request with a path holds a prev relation exactly
\* when current > 0, targeting current-1, and a next relation exactly when
\* current+1 < bound, targeting current+1.
C8_PrevNext ==
    (lhdr # <<>> /\ luri.pq) =>
        /\ Targets(lhdr[1], "prev") = IF lcur > 0 THEN {lcur - 1} ELSE {}
        /\ Targets(lhdr[1], "next") =
               IF lcur + 1 < lbound THEN {lcur + 1} ELSE {}

\* current=4, bound=5: no next, prev targets 3
C8_Witness ==
    /\ lcur = 4 /\ lbound = 5 /\ luri.pq /\ lhdr # <<>>
    /\ Targets(lhdr[1], "next") = {}
    /\ Targets(lhdr[1], "prev") = {3}

\* the response read_msg builds carries first -> 0 and last -> last_sequence()
C9_HeaderBuilt(h, bound) ==
    /\ h # <<>>
    /\ Targets(h, "first") = {0}
    /\ Targets(h, "last") = {bound}

\* C9: every Link header built by read_msg (whose request URI always has a
\* path) is produced and non-empty, holds a first relation targeting 0 and a
\* last relation targeting last_sequence(), and the sequence the last link
\* targets is one whose read fails when the response is built.
C9_FirstLast ==
    [][\A t \in Req :
           RRespond(t) =>
               /\ resp'.code = "ok"
               /\ C9_HeaderBuilt(resp'.hdr, last(index))
               /\ read(data, indices, last(index)) = <<>>]_vars

\* a handler is inside a store operation
InOp(t) == pc[t] # "idle"

\* no two store operations run at once, and the one that runs holds the lock
C10_Exclusive ==
    \A t \in Req : InOp(t) => (lock = t /\ \A u \in Req : InOp(u) => u = t)

\* the appends that have been assigned a sequence: those answered, and those
\* in progress
Appends ==
    {<<"answered", k>> : k \in 1..Len(log)} \cup
    {<<"running", t>> : t \in {u \in Req : pc[u] \in {"w_data", "w_index", "w_flush"}}}

Assigned(a) == IF a[1] = "answered" THEN log[a[2]].entry ELSE cur[a[2]]

\* C10 as stated: the store operations exclude one another, and no two
\* appends are assigned the same sequence or the same start offset.
C10_DistinctStarts ==
    /\ C10_Exclusive
    /\ \A a, b \in Appends :
           a # b => /\ Assigned(a).index # Assigned(b).index
                    /\ Assigned(a).start # Assigned(b).start

\* C10, amended: the store operations exclude one another, no two appends are
\* assigned the same sequence, and two appends are assigned the same start
\* offset only when the earlier of them has an empty payload.
C10_Serialized ==
    /\ C10_Exclusive
    /\ \A a, b \in Appends :
           a # b =>
               /\ Assigned(a).index # Assigned(b).index
               /\ (Assigned(a).index < Assigned(b).index
                     /\ Assigned(a).start = Assigned(b).start)
                      => Assigned(a).length = 0

\* an append in progress behind two answered ones, the first of them empty
\* and sharing its start offset with the second
C10_Witness ==
    /\ Len(log) = 2 /\ lock = 2 /\ pc[2] = "w_index" /\ pc[1] = "idle"
    /\ log[1].payload = <<>> /\ log[2].payload # <<>>
    /\ log[1].entry.start = log[2].entry.start
    /\ cur[2].index = 2 /\ cur[2].start = 1

\* the store files and the Log State
LogState == <<data, indices, dataDisk, indicesDisk, offset, index>>

\* C11: a write request whose body exceeds the size cap is answered with a
\* bad-request response and commits nothing: both files and the Log State
\* are the same after the request as before it.
C11_CapRejects ==
    [][\A t \in Req :
           /\ \A chunks \in Bodies :
                  WTooLarge(t, chunks) =>
                      /\ pc'[t] = "early"
                      /\ early'[t].code = "badrequest"
                      /\ UNCHANGED LogState
           /\ (Return(t) /\ early[t].code = "badrequest") => UNCHANGED LogState]_vars

\* a body over the cap answered with 400 while another handler is in the
\* middle of an append
C11_Witness ==
    /\ pc[1] = "early"
    /\ early[1].code = "badrequest"
    /\ pc[2] = "w_index" /\ Len(log) = 1

\* C12: once an operation has aborted while holding the lock, every read or
\* write request of that process is answered with an internal-error response
\* and performs no store operation: the lock is never handed out again and
\* the files and the Log State stay as they are.
C12_PoisonedLock ==
    [][(poisoned /\ poisoned') =>
           /\ lock' = 0
           /\ UNCHANGED LogState
           /\ \A t \in Req :
                  /\ pc'[t] \in {"idle", "early"}
                  /\ (pc[t] = "idle" /\ pc'[t] # "idle") =>
                         early'[t].code = "error"
                  /\ (RLockFail(t) \/ \E p \in Payloads : WLockFail(t, p)) =>
                         early'[t].code = "error"]_vars

\* one record appended, a read that panicked, and then a read and a write
\* both answered with 500
C12_Witness ==
    /\ poisoned /\ Len(log) = 1 /\ lock = 0
    /\ pc[1] = "early" /\ early[1].code = "error" /\ bin[1] = <<>>
    /\ pc[2] = "early" /\ early[2].code = "error" /\ bin[2] # <<>>

\* C13: every successful read(s) returns as many bytes as the index entry of
\* s declares, and where the data file holds fewer bytes than declared from
\* the entry's start on, the read fails.
C13_NoPartial ==
    /\ \A i \in ReadIdx :
           ReadIndexAt(indices, i * LENGTH) # <<>> =>
               /\ ReadNow(i) # <<>> =>
                      /\ ReadNow(i)[1].entry = EntryAt(i)
                      /\ Len(ReadNow(i)[1].bytes) = EntryAt(i).length
               /\ (EntryAt(i).length > 0
                     /\ EntryAt(i).start + EntryAt(i).length > Len(data))
                      => ReadNow(i) = <<>>

\* an index entry that declares a byte the data file does not hold, next to
\* one whose byte is there
C13_Witness ==
    /\ Idle /\ Len(data) = 1
    /\ ReadIndexAt(indices, LENGTH) # <<>>
    /\ ReadNow(0) # <<>> /\ Len(ReadNow(0)[1].bytes) = 1
    /\ EntryAt(1).length = 1 /\ EntryAt(1).start = 1
    /\ ReadNow(1) = <<>>

\* the store operation of the handler holding the lock has succeeded: the
\* payload and the index entry of its append are in the files, or its read
\* has returned the record it holds
StoreOpSucceeded(t) ==
    \/ /\ pc[t] = "w_flush"
       /\ SubSeq(data, at[t] + 1, at[t] + Len(bin[t])) = bin[t]
       /\ Len(indices) >= Len(to_bytes(cur[t]))
       /\ SubSeq(indices, Len(indices) - Len(to_bytes(cur[t])) + 1, Len(indices))
              = to_bytes(cur[t])
    \/ /\ pc[t] = "r_link"
       /\ read_wrapping(data, indices, hi[t], arg[t].idx) = <<got[t]>>

\* C14: a read-side store failure is answered with not-found, a write-side
\* store failure with not-found, a lock failure with internal-error and a
\* body over the cap with bad-request, and a success response is built only
\* by a handler whose store operation succeeded.
C14_ResponseClasses ==
    [][\A t \in Req :
           /\ (\E i \in HttpReadIdx :
                   RRead(t, i, FALSE) /\ read(data, indices, i) = <<>>)
                  => resp'.code = "notfound"
           /\ (\E k \in 0..MaxLen : WDataErr(t, k)) => resp'.code = "notfound"
           /\ (\E k \in 0..2 : WIndexErr(t, k)) => resp'.code = "notfound"
           /\ RLockFail(t) => early'[t].code = "error"
           /\ WLockFail(t, <<>>) => early'[t].code = "error"
           /\ (\E chunks \in HttpBodies : WTooLarge(t, chunks)) =>
                  early'[t].code = "badrequest"
           /\ pc'[t] = "early" => early'[t].code \in {"error", "badrequest"}
           /\ (lock = t /\ resp.code # "ok" /\ resp'.code = "ok") =>
                  StoreOpSucceeded(t)]_vars

\* a failed append answered with 404 while another handler holds a 400 for a
\* body over the cap
C14_Witness ==
    /\ pc[1] = "done" /\ resp.code = "notfound" /\ faults = 1
    /\ pc[2] = "early" /\ early[2].code = "badrequest"
    /\ Len(log) = 1

\* C15: when an append fails with an I/O error, State.offset and State.index
\* keep the values they had before the call (those the Index of the failed
\* append was built from).
C15_AtomicAppend ==
    [][\A t \in Req :
           ((\E k \in 0..MaxLen : WDataErr(t, k))
              \/ (\E k \in 0..2 : WIndexErr(t, k)))
               => (offset' = cur[t].start /\ index' = cur[t].index)]_vars

\* C16: in every state with no request in progress, after failed appends
\* and restarts too, the index file is State.index * 24 bytes long.
C16_IndexLength ==
    Idle => IndicesBytes(indices) = index * LENGTH

\* C17: over the files left by any sequence of successful appends, State::new
\* yields index = E.index + 1 and offset = E.start + E.length for the last
\* index entry E, which are the values the running instance holds after its
\* last append, the offset being the length of the data file; over an empty
\* index file, or one too short to hold an entry, it yields index 0 and
\* offset 0.
C17_RoundTrip ==
    Idle =>
        /\ new(indices) = <<index, offset>>
        /\ offset = Len(data)
        /\ IF Len(log) = 0
           THEN indices = <<>> /\ new(indices) = <<0, 0>>
           ELSE /\ new(indices) = <<EntryAt(Len(log) - 1).index + 1,
                                    EntryAt(Len(log) - 1).start
                                        + EntryAt(Len(log) - 1).length>>
                /\ EntryAt(Len(log) - 1) = log[Len(log)].entry
                /\ \A k \in 0..2 :
                       new(SubSeq(to_bytes(log[Len(log)].entry), 1, k)) = <<0, 0>>

\* three appends, two bytes in all, and the process started again on them
C17_Witness ==
    /\ Idle /\ Len(log) = 3 /\ rebootLen = 3
    /\ Len(data) = 2 /\ log[3].payload # <<>>
    /\ index = 3 /\ offset = 2

\* C18: a read whose idx * 24 does not fit 64 bits is never served an index
\* entry: no handler gets a record back for such an index.
C18_NoWrap ==
    \A t \in Req :
        pc[t] = "r_link" => mul_LENGTH(hi[t], arg[t].idx).carry = 0

\* C19: read_msg builds its Link header while it still holds the lock it read
\* under, from the sequence stored in the entry it read and a bound that is
\* greater than that sequence and counts every append answered so far.
C19_BoundUnderLock ==
    [][\A t \in Req :
           RRespond(t) =>
               /\ lock = t
               /\ read(data, indices, arg[t].idx) = <<got[t]>>
               /\ resp'.index = got[t].entry.index
               /\ \E bound \in Targets(resp'.hdr, "last") :
                      /\ Targets(resp'.hdr, "last") = {bound}
                      /\ got[t].entry.index < bound
                      /\ bound >= Len(log)
                      /\ Targets(resp'.hdr, "next") =
                             IF got[t].entry.index + 1 < bound
                             THEN {got[t].entry.index + 1} ELSE {}]_vars

\* the sequences a walk over n records has seen after k responses
Expected(dir, n, k) ==
    [j \in 1..k |-> IF dir = "next" THEN j - 1 ELSE n - j]

\* C20: with N >= 1 records and no append running, the walk from 0 along
\* next sees 0, 1, .., N-1 in that order, every link it follows is answered
\* with a record, and it ends at N-1, whose response has no next; the walk
\* from N-1 along prev sees N-1, .., 0 and ends at 0, whose response has no
\* prev.
C20_Walk ==
    walk.st # "off" =>
        /\ walk.st # "failed"
        /\ Len(walk.seen) <= Len(log)
        /\ walk.seen = Expected(walk.dir, Len(log), Len(walk.seen))
        /\ walk.st = "end" => Len(walk.seen) = Len(log)
        /\ walk.st = "go" =>
               /\ Len(walk.seen) < Len(log)
               /\ walk.pos = Expected(walk.dir, Len(log),
                                      Len(walk.seen) + 1)[Len(walk.seen) + 1]

\* a walk over three records from the last one back to the first
C20_Witness ==
    /\ walk.st = "end" /\ walk.dir = "prev" /\ Len(log) = 3
    /\ walk.seen = <<2, 1, 0>>

====
